---------------------------- MODULE Spec2Model ----------------------------
(***************************************************************************)
(* Model of src/math_quiz_bot.py: the per-chat quiz session registry, the  *)
(* setup wizard, the answer handler, the stop handler, the round loop      *)
(* (run_quiz_loop) and the timeout watcher (end_question_by_timeout).      *)
(*                                                                         *)
(* One chat is modelled (one group_id).  A session is a Python dict; the   *)
(* handlers and tasks hold references to it across their awaits, so the    *)
(* dicts live in a heap `sess' indexed by an object identity and the       *)
(* registry `quizzes' holds the identity the chat currently maps to.       *)
(*                                                                         *)
(* Scheduling.  The program is one asyncio event loop.  The application is *)
(* built with default settings (line 419), so the library awaits one       *)
(* update handler to completion before it dispatches the next update;      *)
(* `h' is that single handler slot.  The round loop and the timeout        *)
(* watchers are separate tasks (create_task, lines 224 and 318) that run   *)
(* whenever a handler or another task is suspended at an await.  Every     *)
(* action below is the code between two such suspension points.  An        *)
(* outbound message is issued when the code calls the send; the await of   *)
(* that call completes in a later step.  Sleeps and network calls take an  *)
(* arbitrary time: the model is untimed.  Consecutive awaits with no code  *)
(* that touches the state between them are one suspension.                 *)
(***************************************************************************)
EXTENDS Integers, Sequences, FiniteSets, TLC

\* ---------------------------------------------------------------- bounds
NumUsers == 2
MaxSessions == 2
MaxCount == 2
MaxUpdates == 7
RngPeriod == 2
AnswerDelay == 3
MaxElapsed == 21
MaxStreak == 2
MaxPlayers == 11
MaxSeed == 39

\* ------------------------------------------------------ program constants
DEFAULT_TIMEOUT_PER_Q == 20
POINTS_CORRECT == 100
POINTS_PER_SECOND_SPEED_BONUS_MAX == 50
STREAK_BONUS_PER_LEVEL == 10
LEADERBOARD_TOP == 10

Users == 1..NumUsers
Sids == 1..MaxSessions
None == 0

\* The difficulty buttons of quiz_command the players of the model press.
Difficulties == {"hard"}

\* The question-count buttons (5/10/15/20 in the source), scaled down.
Counts == 1..MaxCount

\* time.time() - q_start_time of an accepted answer, in whole seconds.
ElapsedSamples == {AnswerDelay}

\* ------------------------------------------------- text <-> integer
Digits == <<"0", "1", "2", "3", "4", "5", "6", "7", "8", "9">>

IsDigit(c) == \E k \in 1..10 : Digits[k] = c

DigitVal(c) == (CHOOSE k \in 1..10 : Digits[k] = c) - 1

RECURSIVE LStrip(_)
LStrip(t) == IF t # <<>> /\ Head(t) = " " THEN LStrip(Tail(t)) ELSE t

RECURSIVE RStrip(_)
RStrip(t) ==
    IF t # <<>> /\ t[Len(t)] = " " THEN RStrip(SubSeq(t, 1, Len(t) - 1)) ELSE t

\* str.strip()
Strip(t) == RStrip(LStrip(t))

RECURSIVE DigitsValue(_, _)
DigitsValue(t, acc) ==
    IF t = <<>> THEN acc ELSE DigitsValue(Tail(t), 10 * acc + DigitVal(Head(t)))

AllDigits(t) == t # <<>> /\ \A k \in 1..Len(t) : IsDigit(t[k])

\* int(text): an optional sign followed by decimal digits; anything else
\* raises ValueError (ok = FALSE).
ParseInt(t) ==
    LET body == IF t # <<>> /\ Head(t) \in {"-", "+"} THEN Tail(t) ELSE t
        neg  == t # <<>> /\ Head(t) = "-"
    IN  IF AllDigits(body)
        THEN [ok |-> TRUE,
              val |-> IF neg THEN 0 - DigitsValue(body, 0) ELSE DigitsValue(body, 0)]
        ELSE [ok |-> FALSE, val |-> 0]

RECURSIVE NatStr(_)
NatStr(n) ==
    IF n < 10 THEN <<Digits[n + 1]>> ELSE NatStr(n \div 10) \o <<Digits[(n % 10) + 1]>>

\* str(n), what a player types when they mean the number n
IntStr(n) == IF n < 0 THEN <<"-">> \o NatStr(0 - n) ELSE NatStr(n)

\* ------------------------------------------------- question generation
RandRange(difficulty) ==
    IF difficulty = "easy" THEN [lo |-> 1, hi |-> 25]
    ELSE IF difficulty = "medium" THEN [lo |-> 10, hi |-> 75]
    ELSE [lo |-> 20, hi |-> 150]

\* The random source is a stream; position r yields the r-th draw.  The
\* model's stream steps through the requested range in strides and through
\* the operators in pairs, so that consecutive draws give every pair of
\* operators.
RandInt(lo, hi, r) == lo + ((r * 37) % (hi - lo + 1))

RandOp(r) == IF (r \div 2) % 2 = 0 THEN "+" ELSE "-"

ApplyOp(x, op, y) == IF op = "+" THEN x + y ELSE x - y

\* The words of a text, separated by blanks.
RECURSIVE SplitAcc(_, _, _)
SplitAcc(t, cur, out) ==
    IF t = <<>> THEN (IF cur = <<>> THEN out ELSE Append(out, cur))
    ELSE IF Head(t) = " "
         THEN SplitAcc(Tail(t), <<>>, IF cur = <<>> THEN out ELSE Append(out, cur))
         ELSE SplitAcc(Tail(t), Append(cur, Head(t)), out)

Split(t) == SplitAcc(t, <<>>, <<>>)

\* EvalExpr grouping to the right: n0 op0 (n1 op1 n2).
RECURSIVE EvalExpr_rightassoc(_, _)
EvalExpr_rightassoc(acc, rest) ==
    IF rest = <<>> THEN acc
    ELSE ApplyOp(acc, rest[1][1],
                 EvalExpr_rightassoc(ParseInt(rest[2]).val, SubSeq(rest, 3, Len(rest))))

\* eval() of the words "n0 op0 n1 op1 n2": + and - have the same precedence
\* and associate to the left.
RECURSIVE EvalExpr(_, _)
EvalExpr(acc, rest) ==
    IF rest = <<>> THEN acc
    ELSE EvalExpr(ApplyOp(acc, rest[1][1], ParseInt(rest[2]).val),
                  SubSeq(rest, 3, Len(rest)))

\* lines 61-86.  The expression is the text of line 69; the answer is what
\* eval makes of that text (it never raises on such a text, so the
\* fallback of lines 74-79 is not reached).
generate_math_question(difficulty, r) ==
    LET rg   == RandRange(difficulty)
        nums == [k \in 1..3 |-> RandInt(rg.lo, rg.hi, r + k - 1)]
        ops  == [k \in 1..2 |-> RandOp(r + 3 + k - 1)]
        expression == NatStr(nums[1]) \o <<" ", ops[1], " ">> \o NatStr(nums[2])
                          \o <<" ", ops[2], " ">> \o NatStr(nums[3])
        words == Split(expression)
    IN  [text |-> expression,
         answer |-> EvalExpr(ParseInt(words[1]).val, Tail(words)),
         difficulty |-> difficulty]

\* GenerateQuestions with range(num_questions + 1).
GenerateQuestions_extra(difficulty, num_questions, r) ==
    [k \in 1..(num_questions + 1) |->
        generate_math_question(difficulty, r + 5 * (k - 1))]

\* [generate_math_question(difficulty) for _ in range(num_questions)]
\* Each question consumes five draws of the stream.
GenerateQuestions(difficulty, num_questions, r) ==
    [k \in 1..num_questions |-> generate_math_question(difficulty, r + 5 * (k - 1))]

\* ------------------------------------------------- scoring
\* speed_bonus without max(0, ...) (line 262).
speed_bonus_unclamped(time_taken) ==
    IF DEFAULT_TIMEOUT_PER_Q - time_taken >= 0
    THEN (POINTS_PER_SECOND_SPEED_BONUS_MAX * (DEFAULT_TIMEOUT_PER_Q - time_taken))
            \div DEFAULT_TIMEOUT_PER_Q
    ELSE 0 - ((POINTS_PER_SECOND_SPEED_BONUS_MAX * (time_taken - DEFAULT_TIMEOUT_PER_Q))
            \div DEFAULT_TIMEOUT_PER_Q)

\* lines 262-263: int() truncates; time_bonus_factor is never negative, so
\* the truncation is the integer quotient.
speed_bonus(time_taken) ==
    LET left == IF DEFAULT_TIMEOUT_PER_Q - time_taken > 0
                THEN DEFAULT_TIMEOUT_PER_Q - time_taken ELSE 0
    IN  (POINTS_PER_SECOND_SPEED_BONUS_MAX * left) \div DEFAULT_TIMEOUT_PER_Q

points_earned(time_taken, current_streak) ==
    POINTS_CORRECT + speed_bonus(time_taken)
        + (current_streak - 1) * STREAK_BONUS_PER_LEVEL


\* ------------------------------------------------- state
VARIABLES
    quizzes,    \* the registry entry of the chat: a session identity or None
    sess,       \* heap of session dicts
    h,          \* the update handler being run, or the last update handled
    coord,      \* per session: the run_quiz_loop task created for it
    watchers,   \* the end_question_by_timeout tasks not yet finished
    rng,        \* position of the random stream
    updates,    \* number of updates the chat has delivered
    prompted,   \* history: <<session, round>> whose prompt was delivered
    awards,     \* history: per session, the <<round, user>> awarded, in order
    timeups,    \* history: <<session, round>> announced as time's up
    stopAt,     \* history: per session, where its round loop was when stopped
    board       \* the rows of the leaderboard message sent last

vars == <<quizzes, sess, h, coord, watchers, rng, updates,
          prompted, awards, timeups, stopAt, board>>

\* A slot of the heap no dict has been allocated in.
FreeSession ==
    [status |-> "free", host_id |-> None, difficulty |-> "none",
     num_questions |-> 0, active |-> FALSE, questions_data |-> <<>>,
     current_q_index |-> -1,
     first_answerer_id |-> None, q_start_time |-> FALSE,
     scores |-> <<>>, event |-> "absent"]

\* quizzes[group_id] = {"status": "configuring", "host_id": user.id,
\*                      "config": {}, "active": False}
NewSession(user) == [FreeSession EXCEPT !.status = "configuring", !.host_id = user]

Allocated(s) == sess[s].status # "free"

HasFree == \E s \in Sids : ~Allocated(s)

FreshSid == CHOOSE s \in Sids : ~Allocated(s) /\ \A t \in Sids : t < s => Allocated(t)

\* quiz["current_question_details"]
current_question_details(q) == q.questions_data[q.current_q_index + 1]

\* The handler slot: the kind of update, where the handler is suspended
\* ("done" when it has returned or died), the sender, the dict the handler
\* holds in its local `quiz', the text or callback data of the update and
\* the answer the platform gave to _is_admin.  time_taken is the local of
\* that name of handle_text_answer (line 253), 0 until it is computed.
Handler(kind, pc, user, quiz, data, is_admin) ==
    [kind |-> kind, pc |-> pc, user |-> user, quiz |-> quiz, data |-> data,
     is_admin |-> is_admin, time_taken |-> 0]

Idle == Handler("idle", "done", None, None, <<>>, FALSE)

\* The library takes the next update when the handler of the last one has
\* returned.
Dispatch ==
    /\ h.pc = "done"
    /\ updates < MaxUpdates
    /\ updates' = updates + 1

Return == [h EXCEPT !.pc = "done", !.quiz = None]

NoTask == [pc |-> "none", quiz |-> None, n |-> 0, i |-> 0]

Init ==
    /\ quizzes = None
    /\ sess = [s \in Sids |-> FreeSession]
    /\ h = Idle
    /\ coord = [s \in Sids |-> NoTask]
    /\ watchers = {}
    /\ rng = 0
    /\ updates = 0
    /\ prompted = {}
    /\ awards = [s \in Sids |-> <<>>]
    /\ timeups = {}
    /\ stopAt = [s \in Sids |-> "none"]
    /\ board = <<>>

\* ------------------------------------------------- /quiz, /start
\* lines 95-105: rejected while the chat's session has active = True,
\* otherwise the registry entry is replaced by a fresh configuring dict.
QuizRejected == quizzes # None /\ sess[quizzes].active

StartSetup(user) ==
    /\ HasFree
    /\ quizzes' = FreshSid
    /\ sess' = [sess EXCEPT ![FreshSid] = NewSession(user)]

\* The setup_message_id stored after the reply is never read and is left out.
quiz_command(user) ==
    /\ Dispatch
    /\ IF QuizRejected THEN UNCHANGED <<quizzes, sess>> ELSE StartSetup(user)
    /\ h' = Handler("quiz", "done", user, None, <<>>, FALSE)
    /\ UNCHANGED <<coord, watchers, rng, prompted, awards, timeups, stopAt, board>>

\* ------------------------------------------------- leaderboard
\* InsertByPoints placing an entry before the entries of equal points.
RECURSIVE InsertByPoints_unstable(_, _)
InsertByPoints_unstable(sorted, e) ==
    IF sorted = <<>> THEN <<e>>
    ELSE IF Head(sorted).points > e.points
         THEN <<Head(sorted)>> \o InsertByPoints_unstable(Tail(sorted), e)
         ELSE <<e>> \o sorted

\* sorted(scores.items(), key=points, reverse=True): a stable insertion of
\* each entry after the entries with at least as many points.
RECURSIVE InsertByPoints(_, _)
InsertByPoints(sorted, e) ==
    IF sorted = <<>> THEN <<e>>
    ELSE IF Head(sorted).points >= e.points
         THEN <<Head(sorted)>> \o InsertByPoints(Tail(sorted), e)
         ELSE <<e>> \o sorted

RECURSIVE sorted_scores(_)
sorted_scores(scores) ==
    IF scores = <<>> THEN <<>>
    ELSE InsertByPoints(sorted_scores(SubSeq(scores, 1, Len(scores) - 1)),
                        scores[Len(scores)])

\* show_leaderboard looks the chat up in the registry again; it sends the
\* board only when that entry has scores.
BoardHasRows == quizzes # None /\ sess[quizzes].scores # <<>>

\* sorted_scores[:10]
TopRows(sorted) ==
    SubSeq(sorted, 1, IF Len(sorted) < LEADERBOARD_TOP THEN Len(sorted)
                      ELSE LEADERBOARD_TOP)

\* lines 368-387: the rows of the message show_leaderboard sends, none when
\* the chat has no entry or the entry has no scores (a final board then
\* says that no scores were recorded)
show_leaderboard == IF BoardHasRows THEN TopRows(sorted_scores(sess[quizzes].scores)) ELSE <<>>

\* ------------------------------------------------- /stopquiz
SetEvent(q) == IF q.event = "absent" THEN q ELSE [q EXCEPT !.event = "set"]

\* lines 125-133: look the chat up, then await _is_admin
stop_quiz(user) ==
    /\ Dispatch
    /\ h' = IF quizzes = None
            THEN Handler("stop", "done", user, None, <<>>, FALSE)
            ELSE Handler("stop", "admin", user, quizzes, <<>>, FALSE)
    /\ UNCHANGED <<quizzes, sess, coord, watchers, rng, prompted, awards, timeups, stopAt, board>>

\* Where the round loop working on dict q is suspended.
LoopPosition(q) ==
    IF \E c \in Sids : coord[c].quiz = q /\ coord[c].pc \notin {"none", "done"}
    THEN coord[CHOOSE c \in Sids : coord[c].quiz = q /\ coord[c].pc \notin {"none", "done"}].pc
    ELSE "gone"

\* stop_quiz_check without the permission test (lines 134-136).
stop_quiz_check_unguarded ==
    /\ h.kind = "stop" /\ h.pc = "admin"
    /\ \E is_admin \in BOOLEAN :
          /\ sess' = [sess EXCEPT ![h.quiz] =
                        SetEvent([@ EXCEPT !.active = FALSE, !.status = "stopped"])]
          /\ stopAt' = IF stopAt[h.quiz] # "none" THEN stopAt
                       ELSE [stopAt EXCEPT ![h.quiz] = LoopPosition(h.quiz)]
          /\ h' = [h EXCEPT !.pc = "tail", !.is_admin = is_admin]
    /\ UNCHANGED <<quizzes, coord, watchers, rng, updates, prompted, awards, timeups, board>>

\* lines 134-144: the permission check, the stop itself and the notice
stop_quiz_check ==
    /\ h.kind = "stop" /\ h.pc = "admin"
    /\ \E is_admin \in BOOLEAN :
          IF h.user # sess[h.quiz].host_id /\ ~is_admin
          THEN /\ h' = [Return EXCEPT !.is_admin = is_admin]
               /\ UNCHANGED <<sess, stopAt>>
          ELSE /\ sess' = [sess EXCEPT ![h.quiz] =
                             SetEvent([@ EXCEPT !.active = FALSE, !.status = "stopped"])]
               /\ stopAt' = IF stopAt[h.quiz] # "none" THEN stopAt
                            ELSE [stopAt EXCEPT ![h.quiz] = LoopPosition(h.quiz)]
               /\ h' = [h EXCEPT !.pc = "tail", !.is_admin = is_admin]
    /\ UNCHANGED <<quizzes, coord, watchers, rng, updates, prompted, awards, timeups, board>>

\* lines 144-151: the notice and the final leaderboard were sent; the
\* registry entry is deleted
stop_quiz_cleanup ==
    /\ h.kind = "stop" /\ h.pc = "tail"
    /\ board' = IF sess[h.quiz].scores # <<>> THEN show_leaderboard ELSE board
    /\ quizzes' = None
    /\ h' = Return
    /\ UNCHANGED <<sess, coord, watchers, rng, updates, prompted, awards, timeups, stopAt>>

\* ------------------------------------------------- setup buttons
\* The callback data "config:<type>:<value>" after split(':').
ConfigData ==
    {<<"difficulty", d>> : d \in Difficulties}
        \cup {<<"questions", Digits[c + 1]>> : c \in Counts}
        \cup {<<"back", "main">>, <<"cancel", "setup">>}

\* lines 206-213: quiz.update({...}) with the questions generated up front
Activate(q, r) ==
    [q EXCEPT !.status = "active", !.active = TRUE,
              !.questions_data = GenerateQuestions(q.difficulty, q.num_questions, r),
              !.current_q_index = -1, !.scores = <<>>, !.event = "clear"]

\* ConfigDenied without the comparison with host_id (line 165).
ConfigDenied_anyone(user) == quizzes = None

\* line 165: the presses that are turned away
ConfigDenied(user) == quizzes = None \/ user # sess[quizzes].host_id

\* lines 159-229, up to the confirmation of a completed setup.  The await
\* of query.answer() comes before anything is read and is part of the step.
\* On "back" quiz_command is called with the callback query in place of the
\* update: either the attribute lookups of lines 92-93 fail on it and the
\* handler dies, or the setup restarts for the presser.
handle_config_callback(user, data) ==
    /\ Dispatch
    /\ LET quiz == quizzes
           config_type == data[1]
           config_value == data[2]
           counted == [sess[quiz] EXCEPT !.num_questions = DigitVal(config_value)]
       IN  IF ConfigDenied(user) \/ sess[quiz].status # "configuring"
           THEN /\ h' = Handler("config", "done", user, None, data, FALSE)
                /\ UNCHANGED <<quizzes, sess, rng>>
           ELSE IF config_type = "cancel"
           THEN /\ quizzes' = None
                /\ h' = Handler("config", "done", user, None, data, FALSE)
                /\ UNCHANGED <<sess, rng>>
           ELSE IF config_type = "difficulty"
           THEN /\ sess' = [sess EXCEPT ![quiz].difficulty = config_value]
                /\ h' = Handler("config", "done", user, None, data, FALSE)
                /\ UNCHANGED <<quizzes, rng>>
           ELSE IF config_type = "questions" /\ counted.difficulty = "none"
           THEN \* quiz['config']['difficulty'] raises KeyError
                /\ sess' = [sess EXCEPT ![quiz] = counted]
                /\ h' = Handler("config", "done", user, None, data, FALSE)
                /\ UNCHANGED <<quizzes, rng>>
           ELSE IF config_type = "questions"
           THEN /\ sess' = [sess EXCEPT ![quiz] = Activate(counted, rng)]
                /\ rng' = (rng + 5 * counted.num_questions) % RngPeriod
                /\ h' = Handler("config", "activated", user, quiz, data, FALSE)
                /\ UNCHANGED quizzes
           ELSE /\ UNCHANGED <<quizzes, sess>> \/ StartSetup(user)
                /\ h' = Handler("config", "done", user, None, data, FALSE)
                /\ UNCHANGED rng
    /\ UNCHANGED <<coord, watchers, prompted, awards, timeups, stopAt, board>>

\* lines 215-224 and 292-295: after the confirmation and the 3 s sleep the
\* round loop is created; it looks the chat up in the registry and reads
\* the question count (KeyError when that dict has none).
handle_config_callback_spawn ==
    /\ h.kind = "config" /\ h.pc = "activated"
    /\ coord' = [coord EXCEPT ![h.quiz] =
                    IF quizzes = None \/ sess[quizzes].num_questions = 0
                    THEN [NoTask EXCEPT !.pc = "done"]
                    ELSE [pc |-> "loop", quiz |-> quizzes,
                          n |-> sess[quizzes].num_questions, i |-> 0]]
    /\ h' = Return
    /\ UNCHANGED <<quizzes, sess, watchers, rng, updates, prompted, awards, timeups, stopAt, board>>

\* ------------------------------------------------- answers
ScoreIndex(scores, user) ==
    IF \E k \in 1..Len(scores) : scores[k].user_id = user
    THEN CHOOSE k \in 1..Len(scores) : scores[k].user_id = user
    ELSE 0

\* lines 257-270: create the entry on the first win, raise the streak, add
\* the points
AwardScores(scores, user, time_taken) ==
    LET withUser == IF ScoreIndex(scores, user) = 0
                    THEN Append(scores, [user_id |-> user, points |-> 0, streak |-> 0])
                    ELSE scores
        k == ScoreIndex(withUser, user)
        current_streak == withUser[k].streak + 1
    IN  [withUser EXCEPT ![k].streak = current_streak,
                         ![k].points = @ + points_earned(time_taken, current_streak)]

\* lines 281-283
ResetOtherStreaks(scores, user) ==
    [k \in 1..Len(scores) |->
        IF scores[k].user_id # user THEN [scores[k] EXCEPT !.streak = 0] ELSE scores[k]]

\* lines 353-354
ResetAllStreaks(scores) == [k \in 1..Len(scores) |-> [scores[k] EXCEPT !.streak = 0]]

\* Filtered without the test of first_answerer_id (line 241).
Filtered_unlocked(quiz) ==
    \/ quiz = None
    \/ ~sess[quiz].active
    \/ ~sess[quiz].q_start_time

\* Filtered without the test of q_start_time (line 242).
Filtered_unclocked(quiz) ==
    \/ quiz = None
    \/ ~sess[quiz].active
    \/ sess[quiz].first_answerer_id # None

\* lines 240-242: the messages that are not looked at
Filtered(quiz) ==
    \/ quiz = None
    \/ ~sess[quiz].active
    \/ sess[quiz].first_answerer_id # None
    \/ ~sess[quiz].q_start_time

\* Texts a player sends: a word, the answer of the question on display
\* (typed with blanks around it) and the number after it.
AnswerTexts ==
    LET shown == IF quizzes # None /\ sess[quizzes].current_q_index >= 0
                 THEN current_question_details(sess[quizzes]).answer ELSE 0
    IN  {<<"a", "b", "c">>, <<" ">> \o IntStr(shown) \o <<" ">>, IntStr(shown + 1)}

\* IsCorrect with >= for == (line 252).
IsCorrect_atleast(quiz, text) ==
    /\ sess[quiz].current_q_index >= 0
    /\ ParseInt(Strip(text)).ok
    /\ ParseInt(Strip(text)).val >= current_question_details(sess[quiz]).answer

\* lines 246-252: the text is an integer equal to the answer (line 250
\* raises KeyError while no question has been put on display)
IsCorrect(quiz, text) ==
    /\ sess[quiz].current_q_index >= 0
    /\ ParseInt(Strip(text)).ok
    /\ ParseInt(Strip(text)).val = current_question_details(sess[quiz]).answer

\* lines 235-278, up to the await of the reply
handle_text_answer(user, text, time_taken) ==
    /\ Dispatch
    /\ LET quiz == quizzes
       IN  IF ~Filtered(quiz) /\ IsCorrect(quiz, text)
           THEN /\ sess' = [sess EXCEPT ![quiz].first_answerer_id = user,
                                        ![quiz].scores = AwardScores(@, user, time_taken)]
                /\ awards' = [awards EXCEPT ![quiz] =
                                 Append(@, <<sess[quiz].current_q_index, user>>)]
                /\ h' = [Handler("answer", "reply", user, quiz, text, FALSE)
                             EXCEPT !.time_taken = time_taken]
           ELSE /\ h' = Handler("answer", "done", user, None, text, FALSE)
                /\ UNCHANGED <<sess, awards>>
    /\ UNCHANGED <<quizzes, coord, watchers, rng, prompted, timeups, stopAt, board>>

\* lines 280-286, after the reply was sent
handle_text_answer_replied ==
    /\ h.kind = "answer" /\ h.pc = "reply"
    /\ sess' = [sess EXCEPT ![h.quiz] =
                   SetEvent([@ EXCEPT !.scores = ResetOtherStreaks(@, h.user)])]
    /\ h' = Return
    /\ UNCHANGED <<quizzes, coord, watchers, rng, updates, prompted, awards, timeups, stopAt, board>>

\* ------------------------------------------------- run_quiz_loop
\* Iterate with range(num_questions + 1) (line 297).
Iterate_onemore(c, i) ==
    LET q == coord[c].quiz
    IN  IF i <= coord[c].n /\ sess[q].active
        THEN /\ sess' = [sess EXCEPT ![q].current_q_index = i,
                                     ![q].first_answerer_id = None,
                                     ![q].q_start_time = FALSE]
             /\ coord' = [coord EXCEPT ![c].pc = "send_q", ![c].i = i]
        ELSE IF sess[q].active
        THEN /\ sess' = [sess EXCEPT ![q].active = FALSE]
             /\ coord' = [coord EXCEPT ![c].pc = "fin"]
        ELSE /\ coord' = [coord EXCEPT ![c].pc = "done"]
             /\ UNCHANGED sess

\* lines 297-313 and 333-335: iteration i of the for loop up to the await
\* of the prompt, or the end of the loop up to the await of "Quiz Finished"
Iterate(c, i) ==
    LET q == coord[c].quiz
    IN  IF i < coord[c].n /\ sess[q].active
        THEN /\ sess' = [sess EXCEPT ![q].current_q_index = i,
                                     ![q].first_answerer_id = None,
                                     ![q].q_start_time = FALSE]
             /\ coord' = [coord EXCEPT ![c].pc = "send_q", ![c].i = i]
        ELSE IF sess[q].active
        THEN /\ sess' = [sess EXCEPT ![q].active = FALSE]
             /\ coord' = [coord EXCEPT ![c].pc = "fin"]
        ELSE /\ coord' = [coord EXCEPT ![c].pc = "done"]
             /\ UNCHANGED sess

run_quiz_loop_start(c) ==
    /\ coord[c].pc = "loop"
    /\ Iterate(c, 0)
    /\ UNCHANGED <<quizzes, h, watchers, rng, updates, prompted, awards, timeups, stopAt, board>>

\* lines 314-322: the prompt was delivered; start the clock, clear the
\* event, create the timeout task, wait
run_quiz_loop_prompted(c) ==
    /\ coord[c].pc = "send_q"
    /\ sess' = [sess EXCEPT ![coord[c].quiz].q_start_time = TRUE,
                            ![coord[c].quiz].event = "clear"]
    /\ watchers' = watchers \cup
          {[origin |-> coord[c].quiz, q_index |-> coord[c].i, pc |-> "sleep", quiz |-> None]}
    /\ prompted' = prompted \cup {<<coord[c].quiz, coord[c].i>>}
    /\ coord' = [coord EXCEPT ![c].pc = "wait"]
    /\ UNCHANGED <<quizzes, h, rng, updates, awards, timeups, stopAt, board>>

\* run_quiz_loop_woken without the test of active after the wait (line 324).
run_quiz_loop_woken_unchecked(c) ==
    /\ coord[c].pc = "wait"
    /\ sess[coord[c].quiz].event = "set"
    /\ IF coord[c].i < coord[c].n - 1
       THEN /\ coord' = [coord EXCEPT ![c].pc = IF BoardHasRows THEN "board" ELSE "delay"]
            /\ board' = IF BoardHasRows THEN show_leaderboard ELSE board
            /\ UNCHANGED sess
       ELSE Iterate(c, coord[c].i + 1) /\ UNCHANGED board
    /\ UNCHANGED <<quizzes, h, watchers, rng, updates, prompted, awards, timeups, stopAt>>

\* lines 322-330: the event is set.  On a stop the loop is left; before the
\* last round the leaderboard (when the registry entry has scores) or else
\* the notice is sent; after the last round the loop ends.
run_quiz_loop_woken(c) ==
    /\ coord[c].pc = "wait"
    /\ sess[coord[c].quiz].event = "set"
    /\ IF ~sess[coord[c].quiz].active
       THEN /\ coord' = [coord EXCEPT ![c].pc = "done"]
            /\ UNCHANGED <<sess, board>>
       ELSE IF coord[c].i < coord[c].n - 1
       THEN /\ coord' = [coord EXCEPT ![c].pc = IF BoardHasRows THEN "board" ELSE "delay"]
            /\ board' = IF BoardHasRows THEN show_leaderboard ELSE board
            /\ UNCHANGED sess
       ELSE Iterate(c, coord[c].i + 1) /\ UNCHANGED board
    /\ UNCHANGED <<quizzes, h, watchers, rng, updates, prompted, awards, timeups, stopAt>>

\* lines 330-331: the mid-quiz leaderboard was sent; send the notice, then
\* sleep 5 s
run_quiz_loop_board(c) ==
    /\ coord[c].pc = "board"
    /\ coord' = [coord EXCEPT ![c].pc = "delay"]
    /\ UNCHANGED <<quizzes, sess, h, watchers, rng, updates, prompted, awards, timeups, stopAt, board>>

\* the notice was sent and the sleep is over: next iteration
run_quiz_loop_next(c) ==
    /\ coord[c].pc = "delay"
    /\ Iterate(c, coord[c].i + 1)
    /\ UNCHANGED <<quizzes, h, watchers, rng, updates, prompted, awards, timeups, stopAt, board>>

\* lines 336-338: "Quiz Finished" and the final leaderboard were sent; the
\* registry entry is deleted
run_quiz_loop_cleanup(c) ==
    /\ coord[c].pc = "fin"
    /\ board' = show_leaderboard
    /\ quizzes' = None
    /\ coord' = [coord EXCEPT ![c].pc = "done"]
    /\ UNCHANGED <<sess, h, watchers, rng, updates, prompted, awards, timeups, stopAt>>

\* ------------------------------------------------- end_question_by_timeout
\* lines 347-349
Stale(quiz, q_index) ==
    \/ quiz = None
    \/ ~sess[quiz].active
    \/ sess[quiz].current_q_index # q_index
    \/ sess[quiz].first_answerer_id # None

\* lines 343-360: the sleep is over
end_question_by_timeout(w) ==
    /\ w \in watchers /\ w.pc = "sleep"
    /\ LET quiz == quizzes
       IN  IF Stale(quiz, w.q_index)
           THEN /\ watchers' = watchers \ {w}
                /\ UNCHANGED <<sess, timeups>>
           ELSE /\ sess' = [sess EXCEPT ![quiz].scores = ResetAllStreaks(@)]
                /\ timeups' = timeups \cup {<<quiz, w.q_index>>}
                /\ watchers' = (watchers \ {w}) \cup {[w EXCEPT !.pc = "send", !.quiz = quiz]}
    /\ UNCHANGED <<quizzes, h, coord, rng, updates, prompted, awards, stopAt, board>>

\* lines 362-363: the announcement was sent
end_question_by_timeout_sent(w) ==
    /\ w \in watchers /\ w.pc = "send"
    /\ sess' = [sess EXCEPT ![w.quiz] = SetEvent(@)]
    /\ watchers' = watchers \ {w}
    /\ UNCHANGED <<quizzes, h, coord, rng, updates, prompted, awards, timeups, stopAt, board>>

\* ------------------------------------------------- the program
Next ==
    \/ \E u \in Users : quiz_command(u)
    \/ \E u \in Users : stop_quiz(u)
    \/ stop_quiz_check
    \/ stop_quiz_cleanup
    \/ \E u \in Users, d \in ConfigData : handle_config_callback(u, d)
    \/ handle_config_callback_spawn
    \/ \E u \in Users, t \in AnswerTexts, e \in ElapsedSamples : handle_text_answer(u, t, e)
    \/ handle_text_answer_replied
    \/ \E c \in Sids : run_quiz_loop_start(c)
    \/ \E c \in Sids : run_quiz_loop_prompted(c)
    \/ \E c \in Sids : run_quiz_loop_woken(c)
    \/ \E c \in Sids : run_quiz_loop_board(c)
    \/ \E c \in Sids : run_quiz_loop_next(c)
    \/ \E c \in Sids : run_quiz_loop_cleanup(c)
    \/ \E w \in watchers : end_question_by_timeout(w)
    \/ \E w \in watchers : end_question_by_timeout_sent(w)

Spec == Init /\ [][Next]_vars

\* ------------------------------------------------- answers at any delay
\* The answer handler on a round in progress, with the delay of the answer
\* ranging over 0..MaxElapsed seconds.  The session starts in one of these
\* situations: k = 0..MaxStreak, user 1 has won the k rounds played so far
\* (each after AnswerDelay seconds) and round k is on display;
\* k = MaxStreak + 1, user 1 has won round 0, round 1 has timed out and
\* round 2 is on display.
RECURSIVE PriorPoints(_)
PriorPoints(k) ==
    IF k = 0 THEN 0 ELSE PriorPoints(k - 1) + points_earned(AnswerDelay, k)

ScoreScenario(k) ==
    LET lost  == k = MaxStreak + 1
        index == IF lost THEN 2 ELSE k
        wins  == IF lost THEN 1 ELSE k
        n     == MaxStreak + 2
    IN  [quiz |->
            [status |-> "active", host_id |-> 1, difficulty |-> "hard",
             num_questions |-> n, active |-> TRUE,
             questions_data |-> GenerateQuestions("hard", n, 0),
             current_q_index |-> index,
             first_answerer_id |-> None, q_start_time |-> TRUE,
             scores |-> IF wins = 0 THEN <<>>
                        ELSE <<[user_id |-> 1, points |-> PriorPoints(wins),
                                streak |-> IF lost THEN 0 ELSE wins]>>,
             event |-> "clear"],
         loop |-> [pc |-> "wait", quiz |-> 1, n |-> n, i |-> index],
         awards |-> [j \in 1..wins |-> <<j - 1, 1>>],
         timeups |-> IF lost THEN {<<1, 1>>} ELSE {},
         index |-> index]

ScoreInit ==
    \E k \in 0..(MaxStreak + 1) :
        LET sc == ScoreScenario(k)
        IN  /\ quizzes = 1
            /\ sess = [s \in Sids |-> IF s = 1 THEN sc.quiz ELSE FreeSession]
            /\ h = Idle
            /\ coord = [s \in Sids |-> IF s = 1 THEN sc.loop ELSE NoTask]
            /\ watchers = {[origin |-> 1, q_index |-> sc.index, pc |-> "sleep",
                            quiz |-> None]}
            /\ rng = 0
            /\ updates = 0
            /\ prompted = {<<1, r>> : r \in 0..sc.index}
            /\ awards = [s \in Sids |-> IF s = 1 THEN sc.awards ELSE <<>>]
            /\ timeups = sc.timeups
            /\ stopAt = [s \in Sids |-> "none"]
            /\ board = <<>>

ScoreNext ==
    \/ \E u \in Users, t \in AnswerTexts, e \in 0..MaxElapsed :
          handle_text_answer(u, t, e)
    \/ handle_text_answer_replied

ScoreSpec == ScoreInit /\ [][ScoreNext]_vars

\* ------------------------------------------------- leaderboards of any size
\* The mid-quiz leaderboard of a session with up to MaxPlayers players.
\* Player j won round j - 1, at once (150 points) or after the timeout's
\* length (100 points); the round after these has just timed out, which
\* reset the streaks and set the event, and two more rounds remain.  One
\* more table has players of two wins each.
ScoreTables ==
    UNION {[1..len -> {100, 150}] : len \in 0..MaxPlayers}
        \cup {<<300, 300, 100>>}

BoardScenario(points) ==
    LET len == Len(points)
        n   == len + 3
    IN  [status |-> "active", host_id |-> 1, difficulty |-> "hard",
         num_questions |-> n, active |-> TRUE,
         questions_data |-> GenerateQuestions("hard", n, 0),
         current_q_index |-> len,
         first_answerer_id |-> None, q_start_time |-> TRUE,
         scores |-> [j \in 1..len |-> [user_id |-> j, points |-> points[j], streak |-> 0]],
         event |-> "set"]

BoardInit ==
    \E points \in ScoreTables :
        LET len == Len(points)
        IN  /\ quizzes = 1
            /\ sess = [s \in Sids |-> IF s = 1 THEN BoardScenario(points) ELSE FreeSession]
            /\ h = Idle
            /\ coord = [s \in Sids |->
                           IF s = 1 THEN [pc |-> "wait", quiz |-> 1, n |-> len + 3, i |-> len]
                           ELSE NoTask]
            /\ watchers = {}
            /\ rng = 0
            /\ updates = 0
            /\ prompted = {<<1, r>> : r \in 0..len}
            /\ awards = [s \in Sids |-> IF s = 1 THEN [j \in 1..len |-> <<j - 1, j>>] ELSE <<>>]
            /\ timeups = {<<1, len>>}
            /\ stopAt = [s \in Sids |-> "none"]
            /\ board = <<>>

BoardNext ==
    \/ \E c \in Sids : run_quiz_loop_woken(c)
    \/ \E c \in Sids : run_quiz_loop_board(c)

BoardSpec == BoardInit /\ [][BoardNext]_vars

\* ------------------------------------------------- setups of any difficulty
\* The setup of user 1 with any of the three difficulties chosen and the
\* random source at any of the positions 0..MaxSeed.
AllDifficulties == {"easy", "medium", "hard"}

GenInit ==
    \E d \in AllDifficulties, r \in 0..MaxSeed :
        /\ quizzes = 1
        /\ sess = [s \in Sids |->
                      IF s = 1 THEN [NewSession(1) EXCEPT !.difficulty = d]
                      ELSE FreeSession]
        /\ h = Handler("config", "done", 1, None, <<"difficulty", d>>, FALSE)
        /\ coord = [s \in Sids |-> NoTask]
        /\ watchers = {}
        /\ rng = r
        /\ updates = 2
        /\ prompted = {}
        /\ awards = [s \in Sids |-> <<>>]
        /\ timeups = {}
        /\ stopAt = [s \in Sids |-> "none"]
        /\ board = <<>>

GenNext ==
    \/ \E u \in Users, d \in ConfigData : handle_config_callback(u, d)
    \/ handle_config_callback_spawn

GenSpec == GenInit /\ [][GenNext]_vars
\* ------------------------------------------------- steps and observations
\* A step in which the library hands an update of the given kind to its
\* handler.
UpdateStep(kind) == updates' = updates + 1 /\ h'.kind = kind

RoundsAwarded(s) == {awards[s][k][1] : k \in DOMAIN awards[s]}

\* The text that is the answer of the question on display.
ShownText ==
    <<" ">> \o IntStr(current_question_details(sess[quizzes]).answer) \o <<" ">>

OpenRound(q) ==
    /\ sess[q].active
    /\ sess[q].q_start_time
    /\ sess[q].first_answerer_id = None

CoordOwn == \A c \in Sids : coord[c].quiz \in {None, c}

\* ------------------------------------------------- claims
\* C1: in no round of any session are both a correct-answer announcement
\* and a time's-up announcement issued; in particular no answer is awarded
\* for a round its timeout has resolved.
C1_ExclusiveResolution ==
    \A s \in Sids : \A r \in RoundsAwarded(s) : <<s, r>> \notin timeups

\* C2: in every round at most one player is awarded; a correct answer that
\* is handled on an open round locks the round for its sender, and an
\* answer handled when the round is already locked changes nothing.
C2_OneAwardPerRound ==
    \A s \in Sids : \A j, k \in DOMAIN awards[s] :
        awards[s][j][1] = awards[s][k][1] => j = k

C2_AnswerStep ==
    UpdateStep("answer") /\ quizzes # None =>
        IF sess[quizzes].first_answerer_id # None
        THEN UNCHANGED <<quizzes, sess, awards, coord, watchers>>
        ELSE OpenRound(quizzes) /\ h'.data = ShownText =>
                /\ sess'[quizzes].first_answerer_id = h'.user
                /\ awards'[quizzes] =
                      Append(awards[quizzes], <<sess[quizzes].current_q_index, h'.user>>)

C2_FirstCorrectWins == []C2_OneAwardPerRound /\ [][C2_AnswerStep]_vars

C2_Witness ==
    /\ h.kind = "answer" /\ h.pc = "done"
    /\ quizzes # None
    /\ sess[quizzes].active /\ sess[quizzes].current_q_index >= 0
    /\ h.data = ShownText
    /\ sess[quizzes].first_answerer_id \notin {None, h.user}

\* C3: a timeout watcher that wakes after its round was resolved by a
\* correct answer, or after its session was stopped, does nothing: no
\* streak is reset, no time's up is announced and it does not go on to fire
\* a signal.
C3_WakeStep(w) ==
    /\ w \in watchers /\ w.pc = "sleep" /\ w \notin watchers'
    /\ \/ sess[w.origin].status = "stopped"
       \/ w.q_index \in RoundsAwarded(w.origin)
    => /\ UNCHANGED <<sess, timeups>>
       /\ watchers' = watchers \ {w}

C3_StaleWatcherIdle == [][\A w \in watchers : C3_WakeStep(w)]_vars

\* C4: after a permitted stop the round loop of the session is never left
\* blocked for good on the round signal, that is, waiting on a cleared
\* event of a stopped dict that nothing which could set the event refers to.
C4_Blocked(c) ==
    LET q == coord[c].quiz
    IN  /\ coord[c].pc = "wait"
        /\ sess[q].status = "stopped"
        /\ sess[q].event = "clear"
        /\ quizzes # q
        /\ h.quiz # q
        /\ \A w \in watchers : w.quiz # q

C4_StopReleasesLoop == \A c \in Sids : ~C4_Blocked(c)

\* C5: once a session was stopped while its round loop was waiting on the
\* round signal, no time's up is announced for it and its loop sends
\* nothing more (no leaderboard, no next-question notice, no prompt, no
\* quiz-finished): the loop only ends.
C5_AfterStop(s) ==
    stopAt[s] = "wait" =>
        /\ \A r \in 0..MaxCount : <<s, r>> \in timeups' => <<s, r>> \in timeups
        /\ \A c \in Sids : coord[c].quiz = s => coord'[c].pc \in {coord[c].pc, "done"}

C5_SilentAfterStop == [][\A s \in Sids : C5_AfterStop(s)]_vars

C5_Witness ==
    \E s \in Sids : stopAt[s] = "wait" /\ coord[s].pc = "done" /\ coord[s].quiz = s

\* C6: a host command handled while the chat has a session that is being
\* configured or is active does not replace that session and changes
\* nothing of it.
C6_Live(q) ==
    \/ sess[q].status = "configuring"
    \/ sess[q].status = "active" /\ sess[q].active

C6_HostCommandStep ==
    UpdateStep("quiz") /\ quizzes # None /\ C6_Live(quizzes) =>
        quizzes' = quizzes /\ sess'[quizzes] = sess[quizzes]

C6_NoReplacement == [][C6_HostCommandStep]_vars

\* C7: the handling of a text that is not the decimal form of the answer on
\* display (a word, another number) changes nothing of the registry, the
\* sessions, the awards or the tasks.
C7_AnswerStep ==
    /\ UpdateStep("answer")
    /\ quizzes # None /\ sess[quizzes].current_q_index >= 0
    /\ h'.data # ShownText
    => UNCHANGED <<quizzes, sess, awards, coord, watchers, timeups>>

C7_WrongAnswerNoEffect == [][C7_AnswerStep]_vars

C7_Witness ==
    /\ h.kind = "answer" /\ h.pc = "done"
    /\ quizzes # None /\ sess[quizzes].current_q_index >= 0
    /\ OpenRound(quizzes)
    /\ h.data = IntStr(current_question_details(sess[quizzes]).answer + 1)

\* C8: a session with status active has its difficulty and its count set
\* and as many questions as the count; the step that activates it leaves
\* the round index at -1 and the scores empty and generates as many
\* questions as the count pressed; the questions never change afterwards.
C8_Configured ==
    \A s \in Sids : sess[s].status = "active" =>
        /\ sess[s].difficulty \in Difficulties
        /\ sess[s].num_questions \in Counts
        /\ Len(sess[s].questions_data) = sess[s].num_questions

C8_Step(s) ==
    /\ sess[s].status # "active" /\ sess'[s].status = "active" =>
          /\ h'.kind = "config" /\ h'.data[1] = "questions"
          /\ Len(sess'[s].questions_data) = DigitVal(h'.data[2])
          /\ sess'[s].current_q_index = -1
          /\ sess'[s].scores = <<>>
    /\ sess[s].status \in {"active", "stopped"} =>
          sess'[s].questions_data = sess[s].questions_data

C8_ActivationComplete == []C8_Configured /\ [][\A s \in Sids : C8_Step(s)]_vars

C8_Witness ==
    /\ h.kind = "config" /\ h.pc = "activated"
    /\ sess[h.quiz].active
    /\ Len(sess[h.quiz].questions_data) = MaxCount

\* C9: a round is locked and awarded only after its prompt was delivered.
C9_PromptBeforeAnswer ==
    \A s \in Sids :
        /\ sess[s].first_answerer_id # None => <<s, sess[s].current_q_index>> \in prompted
        /\ \A r \in RoundsAwarded(s) : <<s, r>> \in prompted

\* The answer of the second question was sent while its prompt was still
\* being delivered, and nothing was locked.
C9_Witness ==
    /\ h.kind = "answer" /\ h.pc = "done"
    /\ quizzes # None /\ sess[quizzes].active
    /\ sess[quizzes].current_q_index = 1
    /\ <<quizzes, 1>> \notin prompted
    /\ h.data = ShownText
    /\ sess[quizzes].first_answerer_id = None

\* C10: a setup button pressed by someone who is not the host of the chat's
\* session changes nothing of the registry, the sessions or the tasks.
C10_PressStep ==
    /\ UpdateStep("config")
    /\ quizzes # None
    /\ h'.user # sess[quizzes].host_id
    => UNCHANGED <<quizzes, sess, coord, watchers, rng>> /\ h'.pc = "done"

C10_OnlyHostConfigures == [][C10_PressStep]_vars

C10_Witness ==
    /\ h.kind = "config" /\ h.pc = "done"
    /\ h.data[1] = "cancel"
    /\ quizzes # None
    /\ sess[quizzes].status = "configuring"
    /\ h.user # sess[quizzes].host_id

\* C11: a stop command of a user who is not the host of the session and is
\* not reported as an administrator changes nothing of the registry, the
\* sessions (status, active flag, round signal) or the tasks, in the step
\* that receives it and in the step that turns it away; a stop command
\* received when the chat has no session changes nothing and ends at once.
C11_ReceiveStep ==
    UpdateStep("stop") =>
        /\ UNCHANGED <<quizzes, sess, coord, watchers, stopAt>>
        /\ quizzes = None => h'.pc = "done"

C11_DenyStep ==
    /\ h.kind = "stop" /\ h.pc = "admin" /\ h'.pc # "admin"
    /\ h.user # sess[h.quiz].host_id
    /\ ~h'.is_admin
    => /\ UNCHANGED <<quizzes, sess, coord, watchers, stopAt>>
       /\ h'.pc = "done"

C11_DeniedStopNoEffect == [][C11_ReceiveStep /\ C11_DenyStep]_vars

C11_Witness ==
    /\ h.kind = "stop" /\ h.pc = "done" /\ ~h.is_admin
    /\ quizzes # None
    /\ h.user # sess[quizzes].host_id
    /\ sess[quizzes].active /\ sess[quizzes].event = "clear"
    /\ coord[quizzes].pc = "wait"

\* C12 (as stated): an accepted answer given e whole seconds after the
\* prompt by a player whose streak was s adds
\* 100 + round(50 * max(0, (20 - e) / 20)) + 10 * s points and makes the
\* streak s + 1.  round() is rounding to the nearest integer, a half going
\* to the even neighbour.
RoundHalfEven(num, den) ==
    LET q == num \div den
        r == num % den
    IN  IF 2 * r > den \/ (2 * r = den /\ q % 2 = 1) THEN q + 1 ELSE q

Floor(num, den) == num \div den

StreakBefore(user) ==
    LET k == ScoreIndex(sess[quizzes].scores, user)
    IN  IF k = 0 THEN 0 ELSE sess[quizzes].scores[k].streak

PointsBefore(user) ==
    LET k == ScoreIndex(sess[quizzes].scores, user)
    IN  IF k = 0 THEN 0 ELSE sess[quizzes].scores[k].points

C12_Left(e) == IF 20 - e > 0 THEN 20 - e ELSE 0

C12_AwardStep(Rounding(_, _)) ==
    UpdateStep("answer") /\ h'.pc = "reply" =>
        LET user == h'.user
            e == h'.time_taken
            s == StreakBefore(user)
            k == ScoreIndex(sess'[quizzes].scores, user)
        IN  /\ k # 0
            /\ sess'[quizzes].scores[k].points =
                  PointsBefore(user) + 100 + Rounding(50 * C12_Left(e), 20) + 10 * s
            /\ sess'[quizzes].scores[k].streak = s + 1

C12_RoundedBonus == [][C12_AwardStep(RoundHalfEven)]_vars

\* C12 (amended): the same with the speed bonus truncated,
\* 100 + floor(50 * max(0, (20 - e) / 20)) + 10 * s.
C12_TruncatedBonus == [][C12_AwardStep(Floor)]_vars

\* An answer after one second by a player on a streak of two was accepted.
C12_Witness ==
    /\ h.kind = "answer" /\ h.pc = "reply" /\ h.time_taken = 1
    /\ h.user = 1
    /\ sess[quizzes].scores[1].streak = 3
    /\ sess[quizzes].scores[1].points = PriorPoints(2) + 167

\* C13: the step that accepts a player's answer raises that player's streak
\* by one; until the handling of the answer completes nothing changes that
\* streak; the step that completes the handling leaves every other player
\* of the scores with streak 0 and the winner's streak as it was; the step
\* in which a timeout resolves a round leaves every player of the scores
\* with streak 0.
StreakOf(scores, user) ==
    IF ScoreIndex(scores, user) = 0 THEN 0 ELSE scores[ScoreIndex(scores, user)].streak

C13_WinStep ==
    UpdateStep("answer") /\ h'.pc = "reply" =>
        StreakOf(sess'[quizzes].scores, h'.user) = StreakBefore(h'.user) + 1

C13_PendingStep ==
    h.kind = "answer" /\ h.pc = "reply" /\ h'.pc = "reply" =>
        StreakOf(sess'[h.quiz].scores, h.user) = StreakOf(sess[h.quiz].scores, h.user)

C13_CompleteStep ==
    h.kind = "answer" /\ h.pc = "reply" /\ h'.pc = "done" =>
        LET after == sess'[h.quiz].scores
        IN  /\ StreakOf(after, h.user) = StreakOf(sess[h.quiz].scores, h.user)
            /\ \A k \in 1..Len(after) : after[k].user_id # h.user => after[k].streak = 0

C13_TimeoutStep ==
    \A s \in Sids : \A r \in 0..(MaxStreak + 1) :
        <<s, r>> \in timeups' /\ <<s, r>> \notin timeups =>
            \A k \in 1..Len(sess'[s].scores) : sess'[s].scores[k].streak = 0

C13_StreakReset ==
    [][C13_WinStep /\ C13_PendingStep /\ C13_CompleteStep /\ C13_TimeoutStep]_vars

\* C14: in a run without any stop, the rounds of a session are prompted
\* once each and in increasing order, and a session that is still active
\* is never left with its loop waiting on a round signal that nothing can
\* fire any more (so that every prompted round resolves and the loop goes
\* on to finish the session and remove its entry).
C14_NoStop == \A s \in Sids : sess[s].status # "stopped"

C14_Stranded(c) ==
    LET q == coord[c].quiz
    IN  /\ coord[c].pc = "wait"
        /\ sess[q].active
        /\ sess[q].event = "clear"
        /\ quizzes # q
        /\ h.quiz # q
        /\ \A w \in watchers : w.quiz # q

C14_NeverStranded == C14_NoStop => \A c \in Sids : ~C14_Stranded(c)

C14_PromptStep ==
    \A s \in Sids : \A r \in 0..(MaxCount + 1) :
        <<s, r>> \in prompted' /\ <<s, r>> \notin prompted =>
            /\ r < sess[s].num_questions
            /\ \A p \in 0..(MaxCount + 1) : <<s, p>> \in prompted <=> p < r

C14_RunsToFinish == []C14_NeverStranded /\ [][C14_PromptStep]_vars

\* C15: the leaderboard that is sent lists entries of the scores, each at
\* most once, by points in descending order; entries with equal points are
\* in the order in which they were created; it has the first ten rows of
\* that order (all rows when there are fewer); scores created as 300, 300,
\* 100 are listed in that order.
C15_Pos(scores, row) == CHOOSE k \in 1..Len(scores) : scores[k] = row

C15_Ranked(rows, scores) ==
    /\ Len(rows) = IF Len(scores) < 10 THEN Len(scores) ELSE 10
    /\ \A i \in 1..Len(rows) : \E k \in 1..Len(scores) : scores[k] = rows[i]
    /\ \A i, j \in 1..Len(rows) : i < j =>
          \/ rows[i].points > rows[j].points
          \/ /\ rows[i].points = rows[j].points
             /\ C15_Pos(scores, rows[i]) < C15_Pos(scores, rows[j])
    /\ \A k \in 1..Len(scores) :
          (\A i \in 1..Len(rows) : rows[i] # scores[k]) =>
              \A i \in 1..Len(rows) :
                  \/ rows[i].points > scores[k].points
                  \/ /\ rows[i].points = scores[k].points
                     /\ C15_Pos(scores, rows[i]) < k

C15_BoardStep ==
    board' # board /\ quizzes # None =>
        /\ C15_Ranked(board', sess[quizzes].scores)
        /\ [k \in 1..Len(sess[quizzes].scores) |-> sess[quizzes].scores[k].points]
               = <<300, 300, 100>>
           => [k \in 1..Len(board') |-> board'[k].user_id] = <<1, 2, 3>>

C15_LeaderboardOrder == [][C15_BoardStep]_vars

\* A board of eleven players was sent: ten rows, the player left out is
\* the last created of those with the fewest points.
C15_Witness ==
    /\ Len(sess[quizzes].scores) = 11
    /\ Len(board) = 10
    /\ board[1].user_id = 11
    /\ \A i \in 1..10 : board[i].user_id # 10
    /\ board[10].user_id = 9

\* C16: every question generated at activation, for each difficulty, has
\* as its text the three operands drawn (each within the range of the
\* difficulty) and the two operators drawn, in the order drawn, and as its
\* answer the integer ((a op1 b) op2 c).
C16_Apply(x, op, y) == IF op = "-" THEN x - y ELSE x + y

C16_Question(q, difficulty, r) ==
    LET rg  == RandRange(difficulty)
        a   == RandInt(rg.lo, rg.hi, r)
        b   == RandInt(rg.lo, rg.hi, r + 1)
        c   == RandInt(rg.lo, rg.hi, r + 2)
        op1 == RandOp(r + 3)
        op2 == RandOp(r + 4)
    IN  /\ {a, b, c} \subseteq rg.lo..rg.hi
        /\ Split(q.text) = <<IntStr(a), <<op1>>, IntStr(b), <<op2>>, IntStr(c)>>
        /\ q.answer = C16_Apply(C16_Apply(a, op1, b), op2, c)

C16_GenerateStep ==
    \A s \in Sids :
        sess[s].status # "active" /\ sess'[s].status = "active" =>
            /\ sess'[s].questions_data # <<>>
            /\ \A k \in 1..Len(sess'[s].questions_data) :
                  C16_Question(sess'[s].questions_data[k], sess[s].difficulty,
                               rng + 5 * (k - 1))

C16_AnswerLeftToRight == [][C16_GenerateStep]_vars

\* An easy question "a - b - c" with a negative answer was generated.
C16_Witness ==
    /\ sess[1].status = "active"
    /\ sess[1].difficulty = "easy"
    /\ Split(sess[1].questions_data[1].text)[2] = <<"-">>
    /\ Split(sess[1].questions_data[1].text)[4] = <<"-">>
    /\ sess[1].questions_data[1].answer < 0

\* C17: at any time at most one round loop of the chat is live (created
\* and not ended) and at most one timeout watcher is outstanding (created
\* and not returned).
LiveLoops == {c \in Sids : coord[c].pc \notin {"none", "done"}}

C17_OneLoopOneWatcher ==
    /\ Cardinality(LiveLoops) <= 1
    /\ Cardinality(watchers) <= 1

\* C18: while its session is active, the round loop leaves the wait of
\* round i only when a correct answer was awarded for round i or time's up
\* was announced for round i: the event is never found set for a round by
\* a handler or watcher that dealt with an earlier round.
C18_LeaveWaitStep(c) ==
    LET q == coord[c].quiz
    IN  coord[c].pc = "wait" /\ coord'[c].pc # "wait" /\ sess[q].active =>
            \/ coord[c].i \in RoundsAwarded(q)
            \/ <<q, coord[c].i>> \in timeups

C18_ReleasedByOwnRound == [][\A c \in Sids : C18_LeaveWaitStep(c)]_vars

\* C19: while a session has status active its round index is at least -1
\* and at most the number of its questions less one; it is -1 when the
\* session is activated; a step changes it only by starting a round, and
\* then raises it by exactly one.
C19_InRange ==
    \A s \in Sids : sess[s].status = "active" =>
        /\ sess[s].current_q_index >= -1
        /\ sess[s].current_q_index <= Len(sess[s].questions_data) - 1

C19_RoundStarted(s) ==
    \E c \in Sids : coord[c].quiz = s /\ coord[c].pc # "send_q" /\ coord'[c].pc = "send_q"

C19_IndexStep(s) ==
    /\ sess[s].status # "active" /\ sess'[s].status = "active" =>
          sess'[s].current_q_index = -1
    /\ sess[s].status = "active" /\ sess'[s].status = "active" =>
          IF C19_RoundStarted(s)
          THEN sess'[s].current_q_index = sess[s].current_q_index + 1
          ELSE sess'[s].current_q_index = sess[s].current_q_index

C19_IndexMonotonic == []C19_InRange /\ [][\A s \in Sids : C19_IndexStep(s)]_vars

\* A session was run through its last round and left as finished.
C19_Witness ==
    \E s \in Sids :
        /\ sess[s].status = "active" /\ ~sess[s].active
        /\ sess[s].num_questions = MaxCount
        /\ sess[s].current_q_index = MaxCount - 1
        /\ coord[s].pc = "done"

\* C20: when the stop handler or a finishing round loop deletes the chat's
\* registry entry at the end of its handling, the entry is the session it
\* stopped or finished.
C20_TeardownStep ==
    /\ h.kind = "stop" /\ h.pc = "tail" /\ h'.pc = "done" /\ quizzes # None =>
          quizzes = h.quiz
    /\ \A c \in Sids :
          coord[c].pc = "fin" /\ coord'[c].pc = "done" /\ quizzes # None =>
              quizzes = coord[c].quiz

C20_TeardownOwnSession == [][C20_TeardownStep]_vars
=============================================================================
